---- MODULE Spec2Model ----
(***************************************************************************)
(* Model of the containerd shim for verified-container .ctp bundles:       *)
(*   main.rs   - main / run (mode handling, exit codes, delegation)        *)
(*   verify.rs - verify_bundle and its five checks, cache, audit log       *)
(*   bundle.rs - CtpBundle (the handle the verifier consumes)              *)
(*                                                                         *)
(* Byte strings that are only compared or signed are kept symbolic:        *)
(*   - a public key is [len, id]: its length and the identity of its bytes *)
(*   - an Ed25519 signature is [len, signer, msg]: the byte string that    *)
(*     verifies under the key with identity `signer` over `msg` and        *)
(*     under nothing else (signer 0: bytes that verify under no key)       *)
(*   - SHA-256 is injective: a digest is the term it was computed from     *)
(* Option<T> is a sequence of length 0 (None) or 1 (Some).                 *)
(***************************************************************************)
EXTENDS Integers, Sequences, FiniteSets, TLC

(***************************************************************************)
(* Bounds of the model                                                     *)
(***************************************************************************)
MaxAudit == 2       \* no shim is started once the audit log has this many lines
MaxNow == 3601      \* the clock stops advancing here
MaxByte == 1        \* payload bytes range over 0..MaxByte
PayloadLen == 2     \* bytes of a DSSE payload
MaxAtts == 2        \* attestations of a bundle given to one check
MaxSigs == 2        \* signatures of an envelope given to one check
MaxLogs == 3        \* log entries of a bundle given to one check
MaxArgs == 3        \* command-line arguments after the program name
MaxPath == 3        \* hashes of an audit path
MaxTree == 3        \* log_index and tree_size range over 0..MaxTree
MaxEntryData == 1   \* bytes of a SET between the timestamp and the signature
MaxClock == 2       \* times 0..MaxClock for the validity window of a key
NumShims == 3       \* shim processes that write the audit log at the same time

(***************************************************************************)
(* Program constants                                                       *)
(***************************************************************************)
EXIT_SUCCESS == 0
EXIT_VERIFY_FAILED == 1
EXIT_MALFORMED == 2
EXIT_NETWORK_ERROR == 3
CacheTtlSecs == 3600
SetGraceSecs == 604800
SetMinLen == 74
Ed25519SigLen == 64
Ed25519KeyLen == 32
MinLogs == 2
BundleMediaType == "application/vnd.verified-container.bundle+json"
ReleaseGroup == "release-signers"
AttestationPath == "/tmp/ctp/attestations/bundle.json"

Modes == {"Strict", "Permissive", "Audit"}

None == << >>
Some(v) == << v >>

(***************************************************************************)
(* anyhow::Result                                                          *)
(*   msg  : Display of the outermost context of the error                  *)
(*   kind : the protocol reason code of the bail site                      *)
(***************************************************************************)
Ok == [ok |-> TRUE, kind |-> "", msg |-> ""]
Err(kind, msg) == [ok |-> FALSE, kind |-> kind, msg |-> msg]

\* str::contains
Contains(s, needle) ==
    \E i \in 1..(Len(s) - Len(needle) + 1) :
        SubSeq(s, i, i + Len(needle) - 1) = needle

\* The indices of a sequence whose element fails a test, and the first one
FirstIndex(S) == CHOOSE i \in S : \A j \in S : i <= j

(***************************************************************************)
(* Cryptographic primitives                                                *)
(***************************************************************************)
KeyBytes(id) == [len |-> Ed25519KeyLen, id |-> id]
SigBy(id, msg) == [len |-> Ed25519SigLen, signer |-> id, msg |-> msg]

\* ed25519_dalek: VerifyingKey::from_bytes, Signature::from_bytes, verify
Ed25519Verify(public_key_bytes, payload, signature) ==
    /\ public_key_bytes.len = Ed25519KeyLen
    /\ signature.len = Ed25519SigLen
    /\ signature.signer = public_key_bytes.id
    /\ signature.msg = payload

verify_ed25519_signature(payload, signature, public_key_bytes) ==
    IF public_key_bytes.len # Ed25519KeyLen
    THEN Err("InvalidSignature", "Invalid public key length (expected 32 bytes)")
    ELSE IF signature.len # Ed25519SigLen
    THEN Err("InvalidSignature", "Invalid signature length (expected 64 bytes)")
    ELSE IF ~Ed25519Verify(public_key_bytes, payload, signature)
    THEN Err("InvalidSignature", "Signature verification failed")
    ELSE Ok

\* Sha256 of 0x01 || left || right
NodeHash(left, right) == << "node", left, right >>

(***************************************************************************)
(* TrustStore                                                              *)
(***************************************************************************)
TrustedKey(keyid, key_bytes, algorithm, valid_from, valid_until) ==
    [keyid |-> keyid, key_bytes |-> key_bytes, algorithm |-> algorithm,
     valid_from |-> valid_from, valid_until |-> valid_until,
     trust_level |-> "full"]

EmptyStore == [keys |-> << >>, threshold_groups |-> << >>]

\* self.keys.iter().find(|k| k.keyid == keyid)
get_key(trust_store, keyid) ==
    LET hits == {i \in 1..Len(trust_store.keys) : trust_store.keys[i].keyid = keyid}
    IN  IF hits = {} THEN None ELSE Some(trust_store.keys[FirstIndex(hits)])

\* self.threshold_groups.iter().find(|g| g.name == name)
get_threshold_group(trust_store, name) ==
    LET hits == {i \in 1..Len(trust_store.threshold_groups) :
                    trust_store.threshold_groups[i].name = name}
    IN  IF hits = {} THEN None
        ELSE Some(trust_store.threshold_groups[FirstIndex(hits)])

\* TrustStore::load that trusts the release keys when there is no file
TrustStoreLoad_absent_trusts(file) ==
    IF ~file.exists
    THEN [res |-> Ok,
          store |-> [keys |-> << TrustedKey("K1", KeyBytes(1), "ed25519", None, None),
                                 TrustedKey("K2", KeyBytes(2), "ed25519", None, None),
                                 TrustedKey("L1", KeyBytes(3), "ed25519", None, None),
                                 TrustedKey("L2", KeyBytes(4), "ed25519", None, None) >>,
                     threshold_groups |->
                         << [name |-> ReleaseGroup, k |-> 2, n |-> 2,
                             member_keyids |-> << "K1", "K2" >>] >>]]
    ELSE IF file.parsed = None
    THEN [res |-> Err("MalformedTrustStore", "Failed to parse trust store JSON"),
          store |-> EmptyStore]
    ELSE [res |-> Ok, store |-> file.parsed[1]]

\* TrustStore::load on the trust-store file
\*   file: [exists, parsed] with parsed = None when the JSON does not parse
TrustStoreLoad(file) ==
    IF ~file.exists THEN [res |-> Ok, store |-> EmptyStore]
    ELSE IF file.parsed = None
    THEN [res |-> Err("MalformedTrustStore", "Failed to parse trust store JSON"),
          store |-> EmptyStore]
    ELSE [res |-> Ok, store |-> file.parsed[1]]

\* hasher.update(keyid) for every key, in order
RECURSIVE ConcatKeyids(_, _)
ConcatKeyids(keys, i) ==
    IF i > Len(keys) THEN "" ELSE keys[i].keyid \o ConcatKeyids(keys, i + 1)

\* format!("{:x}", hasher.finalize())[..8]; the digest of a byte string is
\* written as that byte string
trust_store_version(trust_store) == ConcatKeyids(trust_store.keys, 1)

\* a cache key without the image digest
CacheKey_without_digest(b, store) == "-" \o trust_store_version(store)

\* format!("{}-{}", image_digest, trust_store_version(trust_store))
CacheKey(b, store) == b.image_digest \o "-" \o trust_store_version(store)

\* format!("{}/{}.cache", cache_dir, cache_key), relative to the directory
CacheFile(b, store) == CacheKey(b, store) \o ".cache"

(***************************************************************************)
(* Step 1: parse_attestation_bundle                                        *)
(***************************************************************************)
parse_attestation_bundle(bundle) ==
    IF ~bundle.att_file.exists
    THEN [res |-> Err("MissingAttestation",
                      "Attestation bundle not found: \"" \o AttestationPath
                          \o "\" (MISSING_ATTESTATION)"),
          val |-> None]
    ELSE IF bundle.att_file.parsed = None
    THEN [res |-> Err("MalformedBundle",
                      "Failed to parse attestation bundle (MALFORMED_BUNDLE)"),
          val |-> None]
    ELSE IF bundle.att_file.parsed[1].media_type # BundleMediaType
    THEN [res |-> Err("MalformedBundle",
                      "Invalid media type: " \o bundle.att_file.parsed[1].media_type
                          \o " (MALFORMED_BUNDLE)"),
          val |-> None]
    ELSE [res |-> Ok, val |-> bundle.att_file.parsed]

(***************************************************************************)
(* Step 2: verify_subject_match                                            *)
(***************************************************************************)
\* a subject loop that stops after one subject
SubjectsFrom_first_only(expected_digest, subject, j) ==
    IF j > Len(subject) THEN Ok
    ELSE LET subject_digest == "sha256:" \o subject[j].digest.sha256
         IN  IF subject_digest # expected_digest
             THEN Err("SubjectMismatch",
                      "Subject mismatch: expected " \o expected_digest
                          \o ", found " \o subject_digest \o " (SUBJECT_MISMATCH)")
             ELSE Ok

RECURSIVE SubjectsFrom(_, _, _)
SubjectsFrom(expected_digest, subject, j) ==
    IF j > Len(subject) THEN Ok
    ELSE LET subject_digest == "sha256:" \o subject[j].digest.sha256
         IN  IF subject_digest # expected_digest
             THEN Err("SubjectMismatch",
                      "Subject mismatch: expected " \o expected_digest
                          \o ", found " \o subject_digest \o " (SUBJECT_MISMATCH)")
             ELSE SubjectsFrom(expected_digest, subject, j + 1)

RECURSIVE SubjectMatchFrom(_, _, _)
SubjectMatchFrom(expected_digest, attestations, i) ==
    IF i > Len(attestations) THEN Ok
    ELSE LET r == SubjectsFrom(expected_digest, attestations[i].subject, 1)
         IN  IF ~r.ok THEN r
             ELSE SubjectMatchFrom(expected_digest, attestations, i + 1)

verify_subject_match(bundle, attestation) ==
    SubjectMatchFrom(bundle.image_digest, attestation.attestations, 1)

(***************************************************************************)
(* Step 3: verify_signatures                                               *)
(***************************************************************************)
\* a window check that refuses a key at the very bounds of its window
CheckSignature_bounds_excluded(payload, signature, trust_store, now) ==
    LET found == get_key(trust_store, signature.keyid)
    IN  IF found = None
        THEN Err("UnknownKey",
                 "UNKNOWN_KEY: keyid " \o signature.keyid \o " not in trust store")
        ELSE LET public_key == found[1]
             IN  IF public_key.valid_until # None /\ now >= public_key.valid_until[1]
                 THEN Err("ExpiredKey",
                          "EXPIRED_KEY: key " \o signature.keyid \o " expired at "
                              \o ToString(public_key.valid_until[1]))
                 ELSE IF public_key.valid_from # None /\ now <= public_key.valid_from[1]
                 THEN Err("KeyNotYetValid",
                          "KEY_NOT_YET_VALID: key " \o signature.keyid
                              \o " not valid until "
                              \o ToString(public_key.valid_from[1]))
                 ELSE IF ~verify_ed25519_signature(payload, signature.sig,
                                                   public_key.key_bytes).ok
                 THEN Err("InvalidSignature",
                          "INVALID_SIGNATURE: Ed25519 verification failed")
                 ELSE Ok

\* the body of the loop over the signatures of one envelope
CheckSignature(payload, signature, trust_store, now) ==
    LET found == get_key(trust_store, signature.keyid)
    IN  IF found = None
        THEN Err("UnknownKey",
                 "UNKNOWN_KEY: keyid " \o signature.keyid \o " not in trust store")
        ELSE LET public_key == found[1]
             IN  IF public_key.valid_until # None /\ now > public_key.valid_until[1]
                 THEN Err("ExpiredKey",
                          "EXPIRED_KEY: key " \o signature.keyid \o " expired at "
                              \o ToString(public_key.valid_until[1]))
                 ELSE IF public_key.valid_from # None /\ now < public_key.valid_from[1]
                 THEN Err("KeyNotYetValid",
                          "KEY_NOT_YET_VALID: key " \o signature.keyid
                              \o " not valid until "
                              \o ToString(public_key.valid_from[1]))
                 ELSE IF ~verify_ed25519_signature(payload, signature.sig,
                                                   public_key.key_bytes).ok
                 THEN Err("InvalidSignature",
                          "INVALID_SIGNATURE: Ed25519 verification failed")
                 ELSE Ok

\* a loop that accepts the envelope at its first good signature
RECURSIVE EnvelopeSignaturesFrom_early_accept(_, _, _, _)
EnvelopeSignaturesFrom_early_accept(dsse_envelope, j, trust_store, now) ==
    IF j > Len(dsse_envelope.signatures) THEN Ok
    ELSE CheckSignature(dsse_envelope.payload, dsse_envelope.signatures[j],
                        trust_store, now)

\* for signature in &dsse_envelope.signatures, from signature j on
RECURSIVE EnvelopeSignaturesFrom(_, _, _, _)
EnvelopeSignaturesFrom(dsse_envelope, j, trust_store, now) ==
    IF j > Len(dsse_envelope.signatures) THEN Ok
    ELSE LET r == CheckSignature(dsse_envelope.payload,
                                 dsse_envelope.signatures[j], trust_store, now)
         IN  IF ~r.ok THEN r
             ELSE EnvelopeSignaturesFrom(dsse_envelope, j + 1, trust_store, now)

RECURSIVE SignaturesFrom(_, _, _, _)
SignaturesFrom(attestations, i, trust_store, now) ==
    IF i > Len(attestations) THEN Ok
    ELSE IF attestations[i].envelope = None
    THEN Err("MissingEnvelope", "Missing DSSE envelope in attestation")
    ELSE LET r == EnvelopeSignaturesFrom(attestations[i].envelope[1], 1,
                                         trust_store, now)
         IN  IF ~r.ok THEN r
             ELSE SignaturesFrom(attestations, i + 1, trust_store, now)

verify_signatures(attestation, trust_store, now) ==
    SignaturesFrom(attestation.attestations, 1, trust_store, now)

(***************************************************************************)
(* Step 4: verify_log_inclusion, verify_set_signature, verify_merkle_proof *)
(***************************************************************************)
\* hex::decode of a hex string [ok, v]: v is the decoded byte string
decode_hex(s) ==
    IF s.ok THEN [res |-> Ok, val |-> s.v]
    ELSE [res |-> Err("MalformedBundle", "Invalid hex string"), val |-> << >>]

\* a fold that keeps the index of the leaf at every level
RECURSIVE MerkleFold_never_halving(_, _, _, _)
MerkleFold_never_halving(audit_path, i, current_hash, index) ==
    IF i > Len(audit_path) THEN current_hash
    ELSE LET sibling_hash == audit_path[i]
             is_right_node == (index % 2 = 0)
             next == IF is_right_node
                       THEN NodeHash(current_hash, sibling_hash)
                       ELSE NodeHash(sibling_hash, current_hash)
         IN  MerkleFold_never_halving(audit_path, i + 1, next, index)

\* the loop over audit_path.iter().skip(1)
RECURSIVE MerkleFold(_, _, _, _)
MerkleFold(audit_path, i, current_hash, index) ==
    IF i > Len(audit_path) THEN current_hash
    ELSE LET sibling_hash == audit_path[i]
             is_right_node == (index % 2 = 0)
             next == IF is_right_node
                       THEN NodeHash(current_hash, sibling_hash)
                       ELSE NodeHash(sibling_hash, current_hash)
         IN  MerkleFold(audit_path, i + 1, next, index \div 2)

verify_merkle_proof(proof) ==
    IF proof.log_index >= proof.tree_size
    THEN Err("LogProofInvalid", "Invalid proof: log_index >= tree_size")
    ELSE IF ~decode_hex(proof.root_hash).res.ok
    THEN Err("MalformedBundle", "Failed to decode root hash")
    ELSE IF \E i \in 1..Len(proof.hashes) : ~decode_hex(proof.hashes[i]).res.ok
    THEN Err("MalformedBundle", "Failed to decode audit path hash")
    ELSE LET expected_root == decode_hex(proof.root_hash).val
             audit_path == [i \in 1..Len(proof.hashes) |->
                               decode_hex(proof.hashes[i]).val]
         IN  IF audit_path = << >>
             THEN Err("LogProofInvalid", "Empty audit path in Merkle proof")
             ELSE IF MerkleFold(audit_path, 2, audit_path[1], proof.log_index)
                        # expected_root
             THEN Err("LogProofInvalid", "Merkle proof verification failed")
             ELSE Ok

\* u64::from_be_bytes
RECURSIVE FromBeBytes(_, _, _)
FromBeBytes(bytes, i, acc) ==
    IF i > Len(bytes) THEN acc ELSE FromBeBytes(bytes, i + 1, acc * 256 + bytes[i])

\* A decoded signedEntryTimestamp is [b64ok, head, sig]: the bytes before the
\* last 64 and the last 64 bytes (as a signature)
SetLen(set) == Len(set.head) + Ed25519SigLen

\* a check that also refuses a timestamp at the end of the grace period
verify_set_signature_grace_excluded(set, log_key, now) ==
    IF ~set.b64ok
    THEN Err("MalformedBundle", "Failed to decode signedEntryTimestamp from base64")
    ELSE IF SetLen(set) < SetMinLen
    THEN Err("MalformedBundle", "SET too short")
    ELSE IF log_key.key_bytes.len # Ed25519KeyLen
    THEN Err("SetInvalid", "Invalid log public key length (expected 32 bytes)")
    ELSE IF ~Ed25519Verify(log_key.key_bytes, set.head, set.sig)
    THEN Err("SetInvalid",
             "SET signature verification failed: invalid signature from transparency log")
    ELSE LET timestamp_ms == FromBeBytes(SubSeq(set.head, 3, 10), 1, 0)
             timestamp_secs == timestamp_ms \div 1000
         IN  IF SetLen(set) >= 10 /\ timestamp_secs >= now + SetGraceSecs
             THEN Err("SetInvalid", "SET timestamp is in the future: "
                                        \o ToString(timestamp_secs))
             ELSE Ok

verify_set_signature(set, log_key, now) ==
    IF ~set.b64ok
    THEN Err("MalformedBundle", "Failed to decode signedEntryTimestamp from base64")
    ELSE IF SetLen(set) < SetMinLen
    THEN Err("MalformedBundle", "SET too short")
    ELSE IF log_key.key_bytes.len # Ed25519KeyLen
    THEN Err("SetInvalid", "Invalid log public key length (expected 32 bytes)")
    ELSE IF ~Ed25519Verify(log_key.key_bytes, set.head, set.sig)
    THEN Err("SetInvalid",
             "SET signature verification failed: invalid signature from transparency log")
    ELSE LET timestamp_ms == FromBeBytes(SubSeq(set.head, 3, 10), 1, 0)
             timestamp_secs == timestamp_ms \div 1000
         IN  IF SetLen(set) >= 10 /\ timestamp_secs > now + SetGraceSecs
             THEN Err("SetInvalid", "SET timestamp is in the future: "
                                        \o ToString(timestamp_secs))
             ELSE Ok

\* the body of the loop over log_entries
CheckLogEntry(log_entry, trust_store, now) ==
    LET found == get_key(trust_store, log_entry.log_id)
    IN  IF found = None
        THEN Err("UnknownLog", "Log " \o log_entry.log_id \o " not in trust store")
        ELSE IF ~verify_set_signature(log_entry.signed_entry_timestamp,
                                      found[1], now).ok
        THEN Err("SetInvalid",
                 "SET_INVALID: Signed Entry Timestamp verification failed for log "
                     \o log_entry.log_id)
        ELSE IF log_entry.inclusion_proof # None
                  /\ ~verify_merkle_proof(log_entry.inclusion_proof[1]).ok
        THEN Err("LogProofInvalid",
                 "LOG_PROOF_INVALID: Merkle proof failed for log " \o log_entry.log_id)
        ELSE Ok

RECURSIVE LogEntriesFrom(_, _, _, _)
LogEntriesFrom(log_entries, i, trust_store, now) ==
    IF i > Len(log_entries) THEN Ok
    ELSE LET r == CheckLogEntry(log_entries[i], trust_store, now)
         IN  IF ~r.ok THEN r
             ELSE LogEntriesFrom(log_entries, i + 1, trust_store, now)

\* a coverage test on the number of entries
verify_log_inclusion_counting_entries(attestation, trust_store, now) ==
    IF Len(attestation.log_entries) < MinLogs
    THEN Err("InsufficientLogCoverage",
             "Insufficient log coverage: " \o ToString(Len(attestation.log_entries))
                 \o " logs, need 2+ (INSUFFICIENT_LOG_COVERAGE)")
    ELSE LogEntriesFrom(attestation.log_entries, 1, trust_store, now)

verify_log_inclusion(attestation, trust_store, now) ==
    LET unique_logs == {attestation.log_entries[i].log_id :
                           i \in 1..Len(attestation.log_entries)}
    IN  IF Cardinality(unique_logs) < MinLogs
        THEN Err("InsufficientLogCoverage",
                 "Insufficient log coverage: " \o ToString(Cardinality(unique_logs))
                     \o " logs, need 2+ (INSUFFICIENT_LOG_COVERAGE)")
        ELSE LogEntriesFrom(attestation.log_entries, 1, trust_store, now)

(***************************************************************************)
(* Step 5: verify_threshold                                                *)
(***************************************************************************)
\* x is an element of the vector v
InVec(v, x) == \E m \in 1..Len(v) : v[m] = x

\* a threshold counter that counts a keyid every time it signs
RECURSIVE CountEnvelope_every_time(_, _, _, _)
CountEnvelope_every_time(signatures, j, threshold_group, acc) ==
    IF j > Len(signatures) THEN acc
    ELSE CountEnvelope_every_time(signatures, j + 1, threshold_group,
             IF InVec(threshold_group.member_keyids, signatures[j].keyid)
             THEN [count |-> acc.count + 1,
                   seen |-> acc.seen \cup {signatures[j].keyid}]
             ELSE acc)

\* for sig in &envelope.signatures, from signature j on;
\* acc = [count |-> valid_signature_count, seen |-> seen_keyids]
RECURSIVE CountEnvelope(_, _, _, _)
CountEnvelope(signatures, j, threshold_group, acc) ==
    IF j > Len(signatures) THEN acc
    ELSE CountEnvelope(signatures, j + 1, threshold_group,
             IF /\ InVec(threshold_group.member_keyids, signatures[j].keyid)
                /\ signatures[j].keyid \notin acc.seen
             THEN [count |-> acc.count + 1,
                   seen |-> acc.seen \cup {signatures[j].keyid}]
             ELSE acc)

\* for att in &attestation.attestations, from attestation i on
RECURSIVE CountAttestations(_, _, _, _)
CountAttestations(attestations, i, threshold_group, acc) ==
    IF i > Len(attestations) THEN acc
    ELSE CountAttestations(attestations, i + 1, threshold_group,
             IF attestations[i].envelope # None
             THEN CountEnvelope(attestations[i].envelope[1].signatures, 1,
                                threshold_group, acc)
             ELSE acc)

\* seen_keyids after the two loops
SeenKeyids(attestation, threshold_group) ==
    CountAttestations(attestation.attestations, 1, threshold_group,
                      [count |-> 0, seen |-> {}]).seen

verify_threshold(attestation, trust_store) ==
    LET found == get_threshold_group(trust_store, ReleaseGroup)
    IN  IF found = None
        THEN Err("ThresholdNotMet",
                 "No 'release-signers' threshold group in trust store")
        ELSE LET threshold_group == found[1]
                 valid_signature_count ==
                     CountAttestations(attestation.attestations, 1, threshold_group,
                                       [count |-> 0, seen |-> {}]).count
             IN  IF valid_signature_count < threshold_group.k
                 THEN Err("ThresholdNotMet",
                          "THRESHOLD_NOT_MET: only " \o ToString(valid_signature_count)
                              \o " signatures, need " \o ToString(threshold_group.k)
                              \o " of " \o ToString(threshold_group.n))
                 ELSE Ok

(***************************************************************************)
(* The files the shim is run on                                            *)
(***************************************************************************)
Hex(v) == [ok |-> TRUE, v |-> v]
Payload0 == [i \in 1..PayloadLen |-> 0]
\* the payload that is signed, and the payloads that differ from it in one byte
Payloads == {Payload0} \cup {[Payload0 EXCEPT ![i] = v] : i \in 1..PayloadLen,
                                                       v \in 1..MaxByte}

\* version, signature type, 8 timestamp bytes (0 ms)
SetHead0 == << 0, 0, 0, 0, 0, 0, 0, 0, 0, 0 >>

MkSubject(sha) == [digest |-> [sha256 |-> sha]]
MkSig(keyid, id, msg) == [keyid |-> keyid, sig |-> SigBy(id, msg)]
MkAttestation(shas, envelope) ==
    [subject |-> [i \in 1..Len(shas) |-> MkSubject(shas[i])],
     predicate_type |-> "https://slsa.dev/provenance/v1",
     envelope |-> envelope]
MkEnvelope(payload, signatures) ==
    [payload_type |-> "application/vnd.in-toto+json",
     payload |-> payload, signatures |-> signatures]
MkLogEntry(log_id, id) ==
    [log_id |-> log_id,
     signed_entry_timestamp |->
         [b64ok |-> TRUE, head |-> SetHead0, sig |-> SigBy(id, SetHead0)],
     inclusion_proof |->
         Some([log_index |-> 0, tree_size |-> 2,
               root_hash |-> Hex(NodeHash("H0", "H1")),
               hashes |-> << Hex("H0"), Hex("H1") >>])]
MkAttestationBundle(media_type, attestations, log_entries) ==
    [media_type |-> media_type, version |-> "1",
     attestations |-> attestations, log_entries |-> log_entries]
MkBundle(image_digest, att_file) ==
    [name |-> "nginx", version |-> "1.26", image_digest |-> image_digest,
     att_file |-> att_file]
FileOf(content) == [exists |-> TRUE, parsed |-> Some(content)]
AbsentFile == [exists |-> FALSE, parsed |-> None]
GarbageFile == [exists |-> TRUE, parsed |-> None]

BothSigs(msg) == << MkSig("K1", 1, msg), MkSig("K2", 2, msg) >>
BothLogs == << MkLogEntry("L1", 3), MkLogEntry("L2", 4) >>

\* one attestation for subject sha whose envelope carries `payload` and
\* `signatures`
OneAttestation(media_type, sha, payload, signatures, log_entries) ==
    FileOf(MkAttestationBundle(media_type,
               << MkAttestation(<< sha >>, Some(MkEnvelope(payload, signatures))) >>,
               log_entries))

\* the bundle of the happy path: signed by K1 and K2, logged in L1 and L2
GoodBundle == MkBundle("sha256:aa",
                  OneAttestation(BundleMediaType, "aa", Payload0,
                                 BothSigs(Payload0), BothLogs))

\* the bundles a shim may be started on
Bundles ==
    \* every payload under the signatures made over Payload0
    { MkBundle("sha256:aa", OneAttestation(BundleMediaType, "aa", p,
                                BothSigs(Payload0), BothLogs)) : p \in Payloads }
    \cup
    \* a second image
    { MkBundle("sha256:bb", OneAttestation(BundleMediaType, "bb", Payload0,
                                BothSigs(Payload0), BothLogs)) }
    \cup
    \* attestation file absent, not JSON, of another media type
    { MkBundle("sha256:aa", AbsentFile), MkBundle("sha256:aa", GarbageFile) }
    \cup
    { MkBundle("sha256:aa", OneAttestation(mt, "aa", Payload0,
                                BothSigs(Payload0), BothLogs)) :
          mt \in {"text/plain", "application/malformed"} }
    \cup
    \* subject of another image
    { MkBundle("sha256:aa", OneAttestation(BundleMediaType, sha, Payload0,
                                BothSigs(Payload0), BothLogs)) :
          sha \in {"bb", "network"} }
    \cup
    \* two attestations: every subject of the image; the last subject of the
    \* second one of another image
    { MkBundle("sha256:aa", FileOf(MkAttestationBundle(BundleMediaType,
          << MkAttestation(<< "aa", "aa" >>,
                           Some(MkEnvelope(Payload0, BothSigs(Payload0)))),
             MkAttestation(<< "aa", last >>,
                           Some(MkEnvelope(Payload0, BothSigs(Payload0)))) >>,
          BothLogs))) : last \in {"aa", "bb"} }
    \cup
    \* no signature, one signer, an unknown signer, no envelope
    { MkBundle("sha256:aa", OneAttestation(BundleMediaType, "aa", Payload0,
                                sigs, BothLogs)) :
          sigs \in { << >>,
                     << MkSig("K1", 1, Payload0) >>,
                     << MkSig("K1", 1, Payload0), MkSig("K9", 9, Payload0) >> } }
    \cup
    { MkBundle("sha256:aa", FileOf(MkAttestationBundle(BundleMediaType,
                                << MkAttestation(<< "aa" >>, None) >>, BothLogs))) }
    \cup
    \* one log only
    { MkBundle("sha256:aa", OneAttestation(BundleMediaType, "aa", Payload0,
                                BothSigs(Payload0),
                                << MkLogEntry("L1", 3), MkLogEntry("L1", 3) >>)) }

GoodKeys == << TrustedKey("K1", KeyBytes(1), "ed25519", None, None),
               TrustedKey("K2", KeyBytes(2), "ed25519", None, None),
               TrustedKey("L1", KeyBytes(3), "ed25519", None, None),
               TrustedKey("L2", KeyBytes(4), "ed25519", None, None) >>
ReleaseSigners(k) == [name |-> ReleaseGroup, k |-> k, n |-> 2,
                      member_keyids |-> << "K1", "K2" >>]
GoodStore == [keys |-> GoodKeys, threshold_groups |-> << ReleaseSigners(2) >>]

\* the contents the trust-store file may have
TrustStoreFiles ==
    { FileOf(GoodStore), AbsentFile, GarbageFile,
      \* K1 rotated to other key bytes under the same keyid
      FileOf([GoodStore EXCEPT !.keys[1].key_bytes = KeyBytes(7)]),
      \* K2 expires after time 0
      FileOf([GoodStore EXCEPT !.keys[2].valid_until = Some(0)]),
      \* K2 removed
      FileOf([GoodStore EXCEPT !.keys = << GoodKeys[1], GoodKeys[3], GoodKeys[4] >>]),
      \* no threshold group
      FileOf([GoodStore EXCEPT !.threshold_groups = << >>]) }

\* the instants at which the clock is read
Times == {0, CacheTtlSecs, MaxNow}

(***************************************************************************)
(* State                                                                   *)
(***************************************************************************)
VARIABLES
    tsFile,         \* the file at TRUST_STORE_PATH
    cacheDir,       \* CACHE_DIR: a set of [file, mtime]
    auditLog,       \* /var/log/verified-container/audit.log, one record per line
    now,            \* the system clock
    pc,             \* position of the shim process
    bundle,         \* run: ctp_bundle
    mode,           \* run: verify_mode
    trust_store,    \* verify_bundle: trust_store
    attestation_bundle, \* verify_bundle: attestation_bundle (Option)
    vres,           \* Option: the Result verify_bundle returned to run
    rres,           \* the Result run returns to main
    exit_code,      \* Option: the ExitCode of the last finished invocation
    hit,            \* history: check_cache returned Some in this call
    checks,         \* history: the checks that passed in this call, in order
    reached,        \* history: the steps of run after verify_bundle that began
    cache0,         \* history: cacheDir when verify_bundle was called
    audit0,         \* history: auditLog when verify_bundle was called
    allowed,        \* history: the last (bundle, trust-store file) that the
                    \* five checks passed, as an Option
    args,           \* std::env::args() of an invocation whose
                    \* arguments are being parsed
    wpc,            \* concurrent shims: position of each in
                    \* record_verification_result
    wentry,         \* concurrent shims: log_entry of each
    written         \* audit.log as the sequence of the write calls of the
                    \* concurrent shims

vars == << tsFile, cacheDir, auditLog, now, pc, bundle, mode, trust_store,
           attestation_bundle, vres, rres, exit_code, hit, checks, reached,
           cache0, audit0, allowed, args, wpc, wentry, written >>

concurrent == << wpc, wentry, written >>
world == << tsFile, cacheDir, auditLog, now, args, concurrent >>
locals == << bundle, mode, trust_store, attestation_bundle >>
history == << hit, checks, reached, cache0, audit0, allowed >>

Init ==
    /\ tsFile \in TrustStoreFiles
    /\ cacheDir = {}
    /\ auditLog = << >>
    /\ now = 0
    /\ pc = "idle"
    /\ bundle = GoodBundle
    /\ mode = "Strict"
    /\ trust_store = EmptyStore
    /\ attestation_bundle = None
    /\ vres = None
    /\ rres = Ok
    /\ exit_code = None
    /\ hit = FALSE
    /\ checks = << >>
    /\ reached = {}
    /\ cache0 = {}
    /\ audit0 = << >>
    /\ allowed = None
    /\ args = << >>
    /\ wpc = [w \in 1..NumShims |-> "none"]
    /\ wentry = [w \in 1..NumShims |-> ""]
    /\ written = << >>

(***************************************************************************)
(* The environment, between invocations of the shim                        *)
(***************************************************************************)
ClockAdvance(t) ==
    /\ pc = "idle"
    /\ t > now
    /\ now' = t
    /\ UNCHANGED << args, concurrent, tsFile, cacheDir, auditLog, pc, locals, vres, rres,
                    exit_code, history >>

ReplaceTrustStore(f) ==
    /\ pc = "idle"
    /\ f # tsFile
    /\ tsFile' = f
    /\ UNCHANGED << args, concurrent, cacheDir, auditLog, now, pc, locals, vres, rres,
                    exit_code, history >>

(***************************************************************************)
(* main.rs: run, up to the call of verify_bundle                           *)
(***************************************************************************)
\* arguments parsed and CtpBundle::load succeeded: verify_bundle is called
RunStart(b, m) ==
    /\ pc = "idle"
    /\ Len(auditLog) < MaxAudit
    /\ bundle' = b
    /\ mode' = m
    /\ trust_store' = EmptyStore
    /\ attestation_bundle' = None
    /\ vres' = None
    /\ rres' = Ok
    /\ exit_code' = None
    /\ hit' = FALSE
    /\ checks' = << >>
    /\ reached' = {}
    /\ cache0' = cacheDir
    /\ audit0' = auditLog
    /\ pc' = "vb_load"
    /\ UNCHANGED << world, allowed >>

\* CtpBundle::load failed: run returns before verify_bundle
RunLoadFails(m) ==
    /\ pc = "idle"
    /\ Len(auditLog) < MaxAudit
    /\ mode' = m
    /\ trust_store' = EmptyStore
    /\ attestation_bundle' = None
    /\ vres' = None
    /\ rres' = Err("", "Failed to load .ctp bundle - malformed bundle")
    /\ exit_code' = None
    /\ hit' = FALSE
    /\ checks' = << >>
    /\ reached' = {}
    /\ cache0' = cacheDir
    /\ audit0' = auditLog
    /\ pc' = "main_exit"
    /\ UNCHANGED << world, bundle, allowed >>

(***************************************************************************)
(* verify.rs: the cache and the audit log                                  *)
(***************************************************************************)
CacheFiles(dir) == {e.file : e \in dir}
Mtime(dir, file) == (CHOOSE e \in dir : e.file = file).mtime

\* std::fs::write(&cache_file, "VERIFIED"): creates or truncates the file
WriteCacheFile(dir, file, clock) ==
    {e \in dir : e.file # file} \cup {[file |-> file, mtime |-> clock]}

\* check_cache that rewrites the entry it hits
check_cache_touching(dir, b, store, clock, metadata_ok, remove_ok) ==
    LET cache_file == CacheFile(b, store)
    IN  IF cache_file \notin CacheFiles(dir)
        THEN [res |-> Ok, val |-> None, dir |-> dir]
        ELSE IF ~metadata_ok
        THEN [res |-> Err("Io", "Permission denied (os error 13)"),
              val |-> None, dir |-> dir]
        ELSE IF clock - Mtime(dir, cache_file) > CacheTtlSecs
        THEN [res |-> Ok, val |-> None,
              dir |-> IF remove_ok THEN {e \in dir : e.file # cache_file} ELSE dir]
        ELSE [res |-> Ok, val |-> Some(TRUE),
              dir |-> WriteCacheFile(dir, cache_file, clock)]

\* check_cache: what it returns and the directory it leaves
\*   metadata_ok: std::fs::metadata and modified() succeed
\*   remove_ok: std::fs::remove_file succeeds; its error is dropped by .ok()
check_cache(dir, b, store, clock, metadata_ok, remove_ok) ==
    LET cache_file == CacheFile(b, store)
    IN  IF cache_file \notin CacheFiles(dir)
        THEN [res |-> Ok, val |-> None, dir |-> dir]
        ELSE IF ~metadata_ok
        THEN [res |-> Err("Io", "Permission denied (os error 13)"),
              val |-> None, dir |-> dir]
        ELSE IF clock - Mtime(dir, cache_file) > CacheTtlSecs
        THEN [res |-> Ok, val |-> None,
              dir |-> IF remove_ok THEN {e \in dir : e.file # cache_file} ELSE dir]
        ELSE [res |-> Ok, val |-> Some(TRUE), dir |-> dir]

\* cache_result(bundle, trust_store, success)
\*   io_ok: create_dir_all and the creation of the file succeed
cache_result(dir, b, store, success, clock, io_ok) ==
    IF ~success THEN [res |-> Ok, dir |-> dir]
    ELSE IF ~io_ok
    THEN [res |-> Err("Io", "Permission denied (os error 13)"), dir |-> dir]
    ELSE [res |-> Ok, dir |-> WriteCacheFile(dir, CacheFile(b, store), clock)]

\* record_verification_result(bundle, outcome)
record_verification_result(log, b, outcome, clock, io_ok) ==
    IF ~io_ok
    THEN [res |-> Err("Io", "Failed to open audit log"), log |-> log]
    ELSE [res |-> Ok,
          log |-> Append(log, [timestamp |-> clock, bundle |-> b.name,
                               digest |-> b.image_digest, outcome |-> outcome])]

(***************************************************************************)
(* verify.rs: verify_bundle, one action per step                           *)
(***************************************************************************)
\* verify_bundle returns Err(r) to run
VbFail(r) ==
    /\ vres' = Some(r)
    /\ pc' = "run_match"

\* a check passed: go on with the next step
VbPass(check, next) ==
    /\ checks' = Append(checks, check)
    /\ pc' = next
    /\ vres' = vres

VbLoadTrustStore ==
    /\ pc = "vb_load"
    /\ LET l == TrustStoreLoad(tsFile)
       IN  IF l.res.ok
           THEN /\ trust_store' = l.store
                /\ pc' = "vb_cache"
                /\ vres' = vres
           ELSE /\ VbFail(Err(l.res.kind, "Failed to load trust store"))
                /\ trust_store' = trust_store
    /\ UNCHANGED << world, bundle, mode, attestation_bundle, rres,
                    exit_code, history >>

VbCheckCache(metadata_ok, remove_ok) ==
    /\ pc = "vb_cache"
    /\ LET c == check_cache(cacheDir, bundle, trust_store, now, metadata_ok, remove_ok)
       IN  /\ cacheDir' = c.dir
           /\ IF ~c.res.ok
              THEN VbFail(c.res) /\ hit' = hit
              ELSE IF c.val # None
              THEN /\ hit' = TRUE
                   /\ vres' = Some(Ok)
                   /\ pc' = "run_match"
              ELSE /\ hit' = hit
                   /\ vres' = vres
                   /\ pc' = "vb_parse"
    /\ UNCHANGED << args, concurrent, tsFile, auditLog, now, locals, rres, exit_code,
                    checks, reached, cache0, audit0, allowed >>

VbParse ==
    /\ pc = "vb_parse"
    /\ LET p == parse_attestation_bundle(bundle)
       IN  IF p.res.ok
           THEN VbPass("parse", "vb_subject") /\ attestation_bundle' = p.val
           ELSE /\ VbFail(p.res)
                /\ UNCHANGED << checks, attestation_bundle >>
    /\ UNCHANGED << world, bundle, mode, trust_store, rres, exit_code,
                    hit, reached, cache0, audit0, allowed >>

\* the steps 2 to 5: r is the Result of the check
\* a step that goes on to the next check after a failure
VbCheck_going_on(at, r, check, next) ==
    /\ pc = at
    /\ IF r.ok THEN VbPass(check, next)
       ELSE pc' = next /\ vres' = vres /\ checks' = checks
    /\ UNCHANGED << world, locals, rres, exit_code,
                    hit, reached, cache0, audit0, allowed >>

VbCheck(at, r, check, next) ==
    /\ pc = at
    /\ IF r.ok THEN VbPass(check, next)
       ELSE VbFail(r) /\ checks' = checks
    /\ UNCHANGED << world, locals, rres, exit_code,
                    hit, reached, cache0, audit0, allowed >>

VbSubject ==
    /\ pc = "vb_subject"
    /\ VbCheck("vb_subject",
               verify_subject_match(bundle, attestation_bundle[1]),
               "subject", "vb_signatures")

VbSignatures ==
    /\ pc = "vb_signatures"
    /\ VbCheck("vb_signatures",
               verify_signatures(attestation_bundle[1], trust_store, now),
               "signatures", "vb_log")

VbLogInclusion ==
    /\ pc = "vb_log"
    /\ VbCheck("vb_log",
               verify_log_inclusion(attestation_bundle[1], trust_store, now),
               "log", "vb_threshold")

\* verify_bundle without its step 5
VbThreshold_skipped ==
    /\ pc = "vb_threshold"
    /\ VbPass("threshold", "vb_cache_result")
    /\ UNCHANGED << world, locals, rres, exit_code,
                    hit, reached, cache0, audit0, allowed >>

VbThreshold ==
    /\ pc = "vb_threshold"
    /\ VbCheck("vb_threshold",
               verify_threshold(attestation_bundle[1], trust_store),
               "threshold", "vb_cache_result")

\* verify_bundle that writes no cache entry in Audit mode
VbCacheResult_not_in_audit(io_ok) ==
    /\ pc = "vb_cache_result"
    /\ LET c == cache_result(cacheDir, bundle, trust_store, mode # "Audit", now, io_ok)
       IN  /\ cacheDir' = c.dir
           /\ IF c.res.ok
              THEN pc' = "vb_record" /\ vres' = vres
              ELSE VbFail(c.res)
    /\ UNCHANGED << args, concurrent, tsFile, auditLog, now, locals, rres, exit_code,
                    history >>

VbCacheResult(io_ok) ==
    /\ pc = "vb_cache_result"
    /\ LET c == cache_result(cacheDir, bundle, trust_store, TRUE, now, io_ok)
       IN  /\ cacheDir' = c.dir
           /\ IF c.res.ok
              THEN pc' = "vb_record" /\ vres' = vres
              ELSE VbFail(c.res)
    /\ UNCHANGED << args, concurrent, tsFile, auditLog, now, locals, rres, exit_code,
                    history >>

VbRecord(io_ok) ==
    /\ pc = "vb_record"
    /\ LET a == record_verification_result(auditLog, bundle, "ALLOW", now, io_ok)
       IN  /\ auditLog' = a.log
           /\ IF a.res.ok
              THEN /\ vres' = Some(Ok)
                   /\ pc' = "run_match"
                   /\ allowed' = Some([bundle |-> bundle, tsFile |-> tsFile])
              ELSE VbFail(a.res) /\ allowed' = allowed
    /\ UNCHANGED << args, concurrent, tsFile, cacheDir, now, locals, rres, exit_code,
                    hit, checks, reached, cache0, audit0 >>

(***************************************************************************)
(* main.rs: run after verify_bundle, and main                              *)
(***************************************************************************)
\* run with Permissive handled as Strict is
RunMatch_permissive_bails ==
    /\ pc = "run_match"
    /\ IF vres[1].ok
       THEN pc' = "run_extract" /\ rres' = rres
       ELSE IF mode \in {"Strict", "Permissive"}
       THEN /\ rres' = Err(vres[1].kind,
                           "Verification failed in strict mode: " \o vres[1].msg)
            /\ pc' = "main_exit"
       ELSE pc' = "run_extract" /\ rres' = rres
    /\ UNCHANGED << world, locals, vres, exit_code, history >>

\* the match on the Result of verify_bundle
RunMatch ==
    /\ pc = "run_match"
    /\ IF vres[1].ok
       THEN pc' = "run_extract" /\ rres' = rres
       ELSE IF mode = "Strict"
       THEN /\ rres' = Err(vres[1].kind,
                           "Verification failed in strict mode: " \o vres[1].msg)
            /\ pc' = "main_exit"
       ELSE pc' = "run_extract" /\ rres' = rres
    /\ UNCHANGED << world, locals, vres, exit_code, history >>

\* ctp_bundle.extract_oci_layout()
RunExtract(io_ok) ==
    /\ pc = "run_extract"
    /\ reached' = reached \cup {"extract"}
    /\ IF io_ok
       THEN pc' = "run_delegate" /\ rres' = rres
       ELSE /\ rres' = Err("Io", "Failed to extract OCI layout")
            /\ pc' = "main_exit"
    /\ UNCHANGED << world, locals, vres, exit_code,
                    hit, checks, cache0, audit0, allowed >>

\* delegate_to_runtime(&oci_dir): runtime_ok is status.success()
RunDelegate(runtime_ok) ==
    /\ pc = "run_delegate"
    /\ reached' = reached \cup {"delegate"}
    /\ rres' = IF runtime_ok THEN Ok
               ELSE Err("Runtime", "OCI runtime exited with status: exit status: 1")
    /\ pc' = "main_exit"
    /\ UNCHANGED << world, locals, vres, exit_code,
                    hit, checks, cache0, audit0, allowed >>

\* main: the exit code of an Err is chosen by e.to_string().contains(..)
ExitCodeOf(r) ==
    IF r.ok THEN EXIT_SUCCESS
    ELSE IF Contains(r.msg, "malformed") THEN EXIT_MALFORMED
    ELSE IF Contains(r.msg, "network") THEN EXIT_NETWORK_ERROR
    ELSE EXIT_VERIFY_FAILED

MainExit ==
    /\ pc = "main_exit"
    /\ exit_code' = Some(ExitCodeOf(rres))
    /\ pc' = "exited"
    /\ UNCHANGED << world, locals, vres, rres, history >>

\* the process is gone: nothing of it remains but the files it wrote
Reaped ==
    /\ pc = "exited"
    /\ pc' = "idle"
    /\ bundle' = GoodBundle
    /\ mode' = "Strict"
    /\ trust_store' = EmptyStore
    /\ attestation_bundle' = None
    /\ vres' = None
    /\ rres' = Ok
    /\ exit_code' = None
    /\ hit' = FALSE
    /\ checks' = << >>
    /\ reached' = {}
    /\ cache0' = {}
    /\ audit0' = << >>
    /\ UNCHANGED << world, allowed >>

Next ==
    \/ \E t \in Times : ClockAdvance(t)
    \/ \E f \in TrustStoreFiles : ReplaceTrustStore(f)
    \/ \E b \in Bundles, m \in Modes : RunStart(b, m)
    \/ \E m \in Modes : RunLoadFails(m)
    \/ VbLoadTrustStore
    \/ \E metadata_ok, remove_ok \in BOOLEAN : VbCheckCache(metadata_ok, remove_ok)
    \/ VbParse
    \/ VbSubject
    \/ VbSignatures
    \/ VbLogInclusion
    \/ VbThreshold
    \/ \E io_ok \in BOOLEAN : VbCacheResult(io_ok)
    \/ \E io_ok \in BOOLEAN : VbRecord(io_ok)
    \/ RunMatch
    \/ \E io_ok \in BOOLEAN : RunExtract(io_ok)
    \/ \E runtime_ok \in BOOLEAN : RunDelegate(runtime_ok)
    \/ MainExit
    \/ Reaped

Spec == Init /\ [][Next]_vars

TypeOK ==
    /\ tsFile \in TrustStoreFiles
    /\ now \in Times
    /\ mode \in Modes
    /\ bundle \in Bundles
    /\ Len(auditLog) <= MaxAudit
    /\ exit_code \in {None} \cup {Some(c) : c \in 0..3}

(***************************************************************************)
(* Properties                                                              *)
(***************************************************************************)
AllChecks == << "parse", "subject", "signatures", "log", "threshold" >>

\* verify_bundle has returned Ok / Err to run
ReturnedOk == vres # None /\ vres[1].ok
ReturnedErr == vres # None /\ ~vres[1].ok

\* the five checks, evaluated afresh on a bundle, a trust store and a time
FiveChecksHold(b, store, clock) ==
    LET p == parse_attestation_bundle(b)
    IN  /\ p.res.ok
        /\ verify_subject_match(b, p.val[1]).ok
        /\ verify_signatures(p.val[1], store, clock).ok
        /\ verify_log_inclusion(p.val[1], store, clock).ok
        /\ verify_threshold(p.val[1], store).ok

\* C1: when verify_bundle returns success on a cache miss, each of the five
\* checks (parse, subject match, signatures, log inclusion, threshold) was
\* run in that call and holds of the bundle, the trust store and the time of
\* the call
C1_SuccessOnMissPassedAllChecks ==
    (ReturnedOk /\ ~hit) =>
        /\ checks = AllChecks
        /\ FiveChecksHold(bundle, trust_store, now)

C1_Witness ==
    /\ pc = "run_match"
    /\ ReturnedOk
    /\ ~hit
    /\ checks = AllChecks

\* C2: when verify_bundle returns Allow on a cache hit, the five checks
\* evaluated afresh on the same bundle, the same trust store and the same
\* time pass too
C2_CacheHitAgreesWithFreshEvaluation ==
    (ReturnedOk /\ hit) => FiveChecksHold(bundle, trust_store, now)

\* the bundles that differ from b0 in exactly one byte of a DSSE payload
PayloadTampered(b0) ==
    IF b0.att_file.parsed = None THEN {}
    ELSE LET atts == b0.att_file.parsed[1].attestations
         IN  UNION { UNION { {
                 [b0 EXCEPT !.att_file.parsed[1].attestations[i].envelope[1].payload[k] = v] :
                     v \in (0..MaxByte) \ {atts[i].envelope[1].payload[k]} } :
                   k \in 1..Len(atts[i].envelope[1].payload) } :
                 i \in {j \in 1..Len(atts) : atts[j].envelope # None} }

\* C3: once a bundle was verified with result Allow, a verify_bundle call on
\* a copy of it with one payload byte changed, under the same trust-store
\* file, returns a rejection of kind InvalidSignature (a call that fails on
\* an I/O error aside)
C3_TamperedPayloadIsRejected ==
    ( /\ vres # None
      /\ allowed # None
      /\ bundle \in PayloadTampered(allowed[1].bundle)
      /\ tsFile = allowed[1].tsFile
      /\ vres[1].kind # "Io" )
    => (~vres[1].ok /\ vres[1].kind = "InvalidSignature")

\* C4: a verify_bundle call that returns an error, at whichever step, leaves
\* the cache directory without any entry that was not there before the call
C4_ErrorLeavesNoNewCacheEntry ==
    ReturnedErr => CacheFiles(cacheDir) \subseteq CacheFiles(cache0)

\* the modes in which run goes on after a failed verification
Lenient == mode \in {"Permissive", "Audit"}

\* C5: run goes on to OCI-layout extraction (and from there to runtime
\* delegation) if and only if verify_bundle returned success or the mode is
\* Permissive or Audit; a failed verification in Strict mode ends with a
\* non-zero exit code without delegate_to_runtime; a failed verification in
\* Permissive mode goes on to extraction and delegation and exits 0 when the
\* runtime succeeds
C5_ProceedsIffVerifiedOrLenient ==
    /\ reached # {} => (vres # None /\ (vres[1].ok \/ Lenient))
    /\ (pc \in {"main_exit", "exited"} /\ vres # None /\ (vres[1].ok \/ Lenient))
           => "extract" \in reached
    /\ (pc = "exited" /\ ReturnedErr /\ mode = "Strict")
           => (exit_code[1] # EXIT_SUCCESS /\ reached = {})
    /\ (pc = "exited" /\ ReturnedErr /\ mode = "Permissive")
           => /\ "delegate" \in reached \/ rres.msg = "Failed to extract OCI layout"
              /\ ("delegate" \in reached /\ rres.ok) => exit_code[1] = EXIT_SUCCESS

C5_Witness ==
    /\ pc = "exited"
    /\ ReturnedErr
    /\ mode = "Permissive"
    /\ "delegate" \in reached
    /\ exit_code = Some(EXIT_SUCCESS)

\* the kinds of the failures of the five checks
TrustKinds == {"SubjectMismatch", "MissingEnvelope", "UnknownKey", "ExpiredKey",
               "KeyNotYetValid", "InvalidSignature", "InsufficientLogCoverage",
               "UnknownLog", "SetInvalid", "LogProofInvalid", "ThresholdNotMet"}
CheckKinds == TrustKinds \cup {"MissingAttestation", "MalformedBundle"}

ModeOutcome(m) ==
    CASE m = "Strict" -> "REJECT"
      [] m = "Permissive" -> "PERMIT_OVERRIDE"
      [] m = "Audit" -> "AUDIT"

\* C6: when the checks of a verification attempt fail, the invocation appends
\* exactly one audit record, of outcome REJECT in Strict mode,
\* PERMIT_OVERRIDE in Permissive mode and AUDIT in Audit mode
C6_FailedAttemptWritesOneAuditRecord ==
    (pc = "exited" /\ ReturnedErr /\ vres[1].kind \in CheckKinds)
        => /\ Len(auditLog) = Len(audit0) + 1
           /\ SubSeq(auditLog, 1, Len(audit0)) = audit0
           /\ auditLog[Len(auditLog)].outcome = ModeOutcome(mode)

\* the positions inside verify_bundle
VbPcs == {"vb_load", "vb_cache", "vb_parse", "vb_subject", "vb_signatures",
          "vb_log", "vb_threshold", "vb_cache_result", "vb_record"}

\* the cache entry of the running call: "{image_digest}-{fingerprint}.cache"
OwnCacheEntry ==
    [file |-> bundle.image_digest \o "-" \o trust_store_version(trust_store)
                  \o ".cache",
     mtime |-> now]

AllowRecord ==
    [timestamp |-> now, bundle |-> bundle.name, digest |-> bundle.image_digest,
     outcome |-> "ALLOW"]

\* C7: a call that passes the five checks on a cache miss first writes the
\* cache entry "{image_digest}-{fingerprint}", then appends one audit record
\* of outcome ALLOW, and only then returns success: the audit log is
\* untouched while the call is before or at the append, the cache entry is
\* there when the append begins, nothing is returned before it, and at the
\* return the log is the log of the call's start plus that one record
C7_CacheThenAuditThenSuccess ==
    /\ pc \in VbPcs => (auditLog = audit0 /\ vres = None)
    /\ pc = "vb_record" => (OwnCacheEntry \in cacheDir /\ checks = AllChecks)
    /\ (ReturnedOk /\ ~hit)
           => /\ OwnCacheEntry \in cacheDir
              /\ auditLog = Append(audit0, AllowRecord)

C7_Witness ==
    /\ ReturnedOk
    /\ ~hit
    /\ OwnCacheEntry \in cacheDir
    /\ OwnCacheEntry \notin cache0
    /\ auditLog = Append(audit0, AllowRecord)

\* C8: on a cache hit verify_bundle returns Allow without having parsed the
\* attestation bundle or run any check, and leaves the audit log and the
\* cache directory as they were
C8_CacheHitRunsNothing ==
    (ReturnedOk /\ hit)
        => /\ checks = << >>
           /\ attestation_bundle = None
           /\ auditLog = audit0
           /\ cacheDir = cache0

C8_Witness ==
    /\ ReturnedOk
    /\ hit
    /\ \E e \in cache0 : e.file = CacheFile(bundle, trust_store) /\ e.mtime < now

\* C9: a verification that fails with MalformedBundle or MissingAttestation
\* stops the shim in every mode: delegate_to_runtime is not reached
C9_MalformedIsFatalInEveryMode ==
    (ReturnedErr /\ vres[1].kind \in {"MalformedBundle", "MissingAttestation"})
        => "delegate" \notin reached

\* C10: in Strict mode a verification failing with MalformedBundle exits
\* with code 2, one failing a trust check exits with code 1, and a run that
\* succeeds exits with code 0
C10_StrictExitCodeFollowsKind ==
    (pc = "exited" /\ mode = "Strict" /\ vres # None)
        => /\ (ReturnedErr /\ vres[1].kind = "MalformedBundle")
                  => exit_code[1] = EXIT_MALFORMED
           /\ (ReturnedErr /\ vres[1].kind \in TrustKinds)
                  => exit_code[1] = EXIT_VERIFY_FAILED
           /\ rres.ok => exit_code[1] = EXIT_SUCCESS


\* the five checks in the order of the protocol: the Result of the first one
\* that fails, and the checks that pass before it
FirstFailure(b, store, clock) ==
    LET p == parse_attestation_bundle(b)
    IN  IF ~p.res.ok THEN p.res
        ELSE IF ~verify_subject_match(b, p.val[1]).ok
        THEN verify_subject_match(b, p.val[1])
        ELSE IF ~verify_signatures(p.val[1], store, clock).ok
        THEN verify_signatures(p.val[1], store, clock)
        ELSE IF ~verify_log_inclusion(p.val[1], store, clock).ok
        THEN verify_log_inclusion(p.val[1], store, clock)
        ELSE verify_threshold(p.val[1], store)

PassedBeforeFailure(b, store, clock) ==
    LET p == parse_attestation_bundle(b)
    IN  IF ~p.res.ok THEN << >>
        ELSE IF ~verify_subject_match(b, p.val[1]).ok THEN SubSeq(AllChecks, 1, 1)
        ELSE IF ~verify_signatures(p.val[1], store, clock).ok
        THEN SubSeq(AllChecks, 1, 2)
        ELSE IF ~verify_log_inclusion(p.val[1], store, clock).ok
        THEN SubSeq(AllChecks, 1, 3)
        ELSE IF ~verify_threshold(p.val[1], store).ok THEN SubSeq(AllChecks, 1, 4)
        ELSE AllChecks

\* an entry for (b, store) no older than the TTL is in the directory
FreshEntryIn(dir, b, store, clock) ==
    \E e \in dir :
        /\ e.file = b.image_digest \o "-" \o trust_store_version(store) \o ".cache"
        /\ clock - e.mtime <= CacheTtlSecs

\* C11: what verify_bundle does is the same in the modes Strict, Permissive
\* and Audit: whether it takes the result from the cache, which checks it
\* runs, whether it passes and whether it writes a cache entry are given by
\* the bundle, the trust store, the time and the cache directory alone
\* (a call that fails on an I/O error or on the trust-store file aside)
C11_ModeChangesNeitherChecksNorResult ==
    (vres # None /\ vres[1].kind \notin {"Io", "MalformedTrustStore"})
        => /\ hit = FreshEntryIn(cache0, bundle, trust_store, now)
           /\ vres[1].ok = (hit \/ FiveChecksHold(bundle, trust_store, now))
           /\ ~hit => /\ checks = PassedBeforeFailure(bundle, trust_store, now)
                      /\ (OwnCacheEntry \in cacheDir)
                             = FiveChecksHold(bundle, trust_store, now)

C11_Witness ==
    /\ ReturnedOk
    /\ ~hit
    /\ mode = "Audit"
    /\ OwnCacheEntry \in cacheDir
    /\ checks = PassedBeforeFailure(bundle, trust_store, now)

\* the keys a store trusts: keyid and key bytes
TrustedKeyBytes(store) ==
    {<< store.keys[i].keyid, store.keys[i].key_bytes >> : i \in 1..Len(store.keys)}

\* C12: when the trust-store file is replaced by one that adds a key, removes
\* a key or gives a keyid other key bytes, the fingerprint in the cache key
\* changes, so that the entries written under the old store are not found
C12_FingerprintChangesWithTrustedKeys ==
    [][ LET old == TrustStoreLoad(tsFile)
            new == TrustStoreLoad(tsFile')
        IN  (/\ old.res.ok
             /\ new.res.ok
             /\ TrustedKeyBytes(old.store) # TrustedKeyBytes(new.store))
                => /\ trust_store_version(new.store) # trust_store_version(old.store)
                   /\ CacheKey(bundle, new.store) # CacheKey(bundle, old.store)
      ]_vars

(***************************************************************************)
(* verify.rs: record_verification_result in several shim processes that    *)
(* share audit.log                                                         *)
(***************************************************************************)
Shims == 1..NumShims

\* format!("{{\"timestamp\":\"{}\",\"bundle\":\"{}\",\"digest\":\"{}\",
\*           \"outcome\":\"{}\"}}", ...), the time written as its seconds
log_entry(b, outcome, clock) ==
    "{\"timestamp\":\"" \o ToString(clock) \o "\",\"bundle\":\"" \o b.name
        \o "\",\"digest\":\"" \o b.image_digest \o "\",\"outcome\":\""
        \o outcome \o "\"}"

\* the images the concurrent shims verified
AuditedBundles ==
    { MkBundle(d, OneAttestation(BundleMediaType, SubSeq(d, 8, 9), Payload0,
                                 BothSigs(Payload0), BothLogs)) :
          d \in {"sha256:aa", "sha256:bb"} }

\* every shim has passed the five checks and calls
\* record_verification_result(bundle, "ALLOW")
InitAudit ==
    /\ tsFile = FileOf(GoodStore)
    /\ cacheDir = {}
    /\ auditLog = << >>
    /\ now = 0
    /\ pc = "idle"
    /\ bundle = GoodBundle
    /\ mode = "Strict"
    /\ trust_store = EmptyStore
    /\ attestation_bundle = None
    /\ vres = None
    /\ rres = Ok
    /\ exit_code = None
    /\ hit = FALSE
    /\ checks = << >>
    /\ reached = {}
    /\ cache0 = {}
    /\ audit0 = << >>
    /\ allowed = None
    /\ args = << >>
    /\ wpc = [w \in Shims |-> "record"]
    /\ wentry \in [Shims -> {log_entry(b, "ALLOW", 0) : b \in AuditedBundles}]
    /\ written = << >>

shim == << tsFile, cacheDir, auditLog, now, pc, bundle, mode, trust_store,
           attestation_bundle, vres, rres, exit_code, hit, checks, reached,
           cache0, audit0, allowed, args >>

\* OpenOptions::new().create(true).append(true).open(...)
AuditOpen(w, io_ok) ==
    /\ wpc[w] = "record"
    /\ wpc' = [wpc EXCEPT ![w] = IF io_ok THEN "opened" ELSE "failed"]
    /\ UNCHANGED << shim, wentry, written >>

\* writeln!(file, "{}", log_entry): write_fmt hands each piece of the
\* format to write_all on the unbuffered File; the first piece is log_entry,
\* appended at the end of the file as it is at the time of the call
AuditWriteEntry(w) ==
    /\ wpc[w] = "opened"
    /\ written' = Append(written, wentry[w])
    /\ wpc' = [wpc EXCEPT ![w] = "entry_written"]
    /\ UNCHANGED << shim, wentry >>

\* the second piece is the "\n" of writeln!; the file is closed on return
AuditWriteNewline(w) ==
    /\ wpc[w] = "entry_written"
    /\ written' = Append(written, "\n")
    /\ wpc' = [wpc EXCEPT ![w] = "returned"]
    /\ UNCHANGED << shim, wentry >>

NextAudit ==
    \/ \E w \in Shims, io_ok \in BOOLEAN : AuditOpen(w, io_ok)
    \/ \E w \in Shims : AuditWriteEntry(w)
    \/ \E w \in Shims : AuditWriteNewline(w)

SpecAudit == InitAudit /\ [][NextAudit]_vars

\* the lines of the file: the bytes written between one "\n" and the next
\* (a log_entry holds no "\n")
RECURSIVE LinesOf(_, _, _)
LinesOf(writes, i, line) ==
    IF i > Len(writes) THEN << >>
    ELSE IF writes[i] = "\n"
    THEN << line >> \o LinesOf(writes, i + 1, "")
    ELSE LinesOf(writes, i + 1, line \o writes[i])

\* C13: when all the shims that write to audit.log at the same time have
\* returned, every line of the file is the whole record of one of them and
\* every record that was written is a line: no bytes of two records are
\* interleaved
C13_EachRecordIsOneWholeLine ==
    (\A w \in Shims : wpc[w] \in {"returned", "failed"})
        => LET lines == LinesOf(written, 1, "")
           IN  /\ \A i \in 1..Len(lines) :
                      \E w \in Shims : wpc[w] = "returned" /\ lines[i] = wentry[w]
               /\ \A w \in Shims :
                      wpc[w] = "returned" => \E i \in 1..Len(lines) : lines[i] = wentry[w]

\* C14: when the trust-store file is absent the store that is loaded has no
\* keys and no threshold groups, and a verify_bundle call that misses the
\* cache on a bundle with at least one attestation returns an error
C14_AbsentTrustStoreAllowsNothing ==
    (pc \notin {"idle", "vb_load", "exited"} /\ ~tsFile.exists /\ rres.ok)
        => /\ trust_store.keys = << >>
           /\ trust_store.threshold_groups = << >>
           /\ (/\ vres # None
               /\ ~hit
               /\ attestation_bundle # None
               /\ Len(attestation_bundle[1].attestations) >= 1) => ~vres[1].ok

\* the subject check passed and the envelope has no signature to refuse: the
\* call fails for want of a log key
C14_Witness ==
    /\ ~tsFile.exists
    /\ vres # None
    /\ ~hit
    /\ attestation_bundle # None
    /\ Len(attestation_bundle[1].attestations) >= 1
    /\ checks = SubSeq(AllChecks, 1, 3)
    /\ ~vres[1].ok
    /\ vres[1].kind = "UnknownLog"

(***************************************************************************)
(* One check applied to an attestation bundle and a trust store            *)
(***************************************************************************)
\* the state in which verify_bundle is about to call one check on
\* (attestation, store) at time clock
CallOn(attestation, store, clock) ==
    /\ tsFile = FileOf(store)
    /\ cacheDir = {}
    /\ auditLog = << >>
    /\ now = clock
    /\ pc = "call"
    /\ bundle = MkBundle("sha256:aa", FileOf(attestation))
    /\ mode = "Strict"
    /\ trust_store = store
    /\ attestation_bundle = Some(attestation)
    /\ vres = None
    /\ rres = Ok
    /\ exit_code = None
    /\ hit = FALSE
    /\ checks = << >>
    /\ reached = {}
    /\ cache0 = {}
    /\ audit0 = << >>
    /\ allowed = None
    /\ args = << >>
    /\ wpc = [w \in 1..NumShims |-> "none"]
    /\ wentry = [w \in 1..NumShims |-> ""]
    /\ written = << >>

\* the check returns r
Returns(r) ==
    /\ pc = "call"
    /\ pc' = "returned"
    /\ vres' = Some(r)
    /\ UNCHANGED << world, locals, rres, exit_code, history >>

\* sequences of at most n elements of S
SeqsUpTo(S, n) == UNION {[1..m -> S] : m \in 0..n}

(***************************************************************************)
(* verify_threshold on its own                                             *)
(***************************************************************************)
\* envelopes signed by any of K1, K2 (members) and K9 (not a member)
ThresholdEnvelopes ==
    {None} \cup
    {Some(MkEnvelope(Payload0, sigs)) :
        sigs \in SeqsUpTo({MkSig("K1", 1, Payload0), MkSig("K2", 2, Payload0),
                           MkSig("K9", 9, Payload0)}, MaxSigs)}

ThresholdAttestations ==
    {MkAttestationBundle(BundleMediaType, atts, BothLogs) :
        atts \in SeqsUpTo({MkAttestation(<< "aa" >>, e) : e \in ThresholdEnvelopes},
                          MaxAtts)}

\* no group, a group of another name, release-signers with k from 0 to n + 1
ThresholdStores ==
    {[keys |-> GoodKeys, threshold_groups |-> gs] :
        gs \in {<< >>, << [ReleaseSigners(1) EXCEPT !.name = "build-signers"] >>}
               \cup {<< ReleaseSigners(k) >> : k \in 0..3}}

InitThreshold ==
    \E a \in ThresholdAttestations, store \in ThresholdStores : CallOn(a, store, 0)

ApplyThreshold == Returns(verify_threshold(attestation_bundle[1], trust_store))

NextThreshold == ApplyThreshold

SpecThreshold == InitThreshold /\ [][NextThreshold]_vars

\* the keyids that appear in a DSSE signature of any attestation
SigningKeyids(attestation) ==
    {kid \in {"K1", "K2", "K9"} :
        \E i \in 1..Len(attestation.attestations) :
            /\ attestation.attestations[i].envelope # None
            /\ \E j \in 1..Len(attestation.attestations[i].envelope[1].signatures) :
                   attestation.attestations[i].envelope[1].signatures[j].keyid = kid}

\* the groups of the store that are named release-signers
ReleaseGroups(store) ==
    {grp \in {store.threshold_groups[g] : g \in 1..Len(store.threshold_groups)} :
        grp.name = "release-signers"}

\* C15: verify_threshold passes exactly when the store has a group named
\* release-signers and at least k distinct member keyids appear in the DSSE
\* signatures of the attestations, a keyid that signs several times counting
\* once; with k = n all members have signed, with k = 1 one member suffices
C15_ThresholdCountsDistinctMemberKeyids ==
    (pc = "returned")
        => LET signers == SigningKeyids(attestation_bundle[1])
           IN  /\ vres[1].ok =
                      \E grp \in ReleaseGroups(trust_store) :
                          Cardinality(signers \cap {"K1", "K2"}) >= grp.k
               /\ \A grp \in ReleaseGroups(trust_store) :
                      /\ (vres[1].ok /\ grp.k = grp.n) => {"K1", "K2"} \subseteq signers
                      /\ (grp.k = 1 /\ signers \cap {"K1", "K2"} # {}) => vres[1].ok
               /\ ~vres[1].ok => vres[1].kind = "ThresholdNotMet"

\* K1 signs two attestations and nobody else of the group signs: two member
\* signatures, one distinct member, refused under k = 2
C15_Witness ==
    /\ pc = "returned"
    /\ ~vres[1].ok
    /\ \E grp \in ReleaseGroups(trust_store) : grp.k = 2
    /\ SigningKeyids(attestation_bundle[1]) = {"K1"}
    /\ Len(attestation_bundle[1].attestations) = 2
    /\ \A i \in 1..2 : attestation_bundle[1].attestations[i].envelope # None
    /\ \A i \in 1..2 :
           Len(attestation_bundle[1].attestations[i].envelope[1].signatures) >= 1

(***************************************************************************)
(* verify_log_inclusion on its own                                         *)
(***************************************************************************)
\* entries of the trusted logs L1 and L2, an entry of L2 whose timestamp is
\* signed by another key, an entry of a log that is not in the store
LogEntryChoices ==
    {MkLogEntry("L1", 3), MkLogEntry("L2", 4), MkLogEntry("L2", 9),
     MkLogEntry("L9", 9)}

LogAttestations ==
    {MkAttestationBundle(BundleMediaType,
         << MkAttestation(<< "aa" >>, Some(MkEnvelope(Payload0, BothSigs(Payload0)))) >>,
         entries) : entries \in SeqsUpTo(LogEntryChoices, MaxLogs)}

InitLog ==
    \E a \in LogAttestations, t \in Times : CallOn(a, GoodStore, t)

ApplyLogInclusion ==
    Returns(verify_log_inclusion(attestation_bundle[1], trust_store, now))

NextLog == ApplyLogInclusion

SpecLog == InitLog /\ [][NextLog]_vars

\* two of the entries name different logs
TwoDistinctLogs(entries) ==
    \E i, j \in 1..Len(entries) : entries[i].log_id # entries[j].log_id

\* C16: verify_log_inclusion fails with InsufficientLogCoverage whenever the
\* log entries name fewer than 2 distinct log_ids (no entry, or entries
\* that all share one log_id); with 2 or more distinct log_ids the coverage
\* requirement is met and the result is that of the entries themselves
C16_CoverageNeedsTwoDistinctLogs ==
    (pc = "returned")
        => LET entries == attestation_bundle[1].log_entries
           IN  /\ ~TwoDistinctLogs(entries)
                      => ~vres[1].ok /\ vres[1].kind = "InsufficientLogCoverage"
               /\ TwoDistinctLogs(entries)
                      => /\ vres[1].kind # "InsufficientLogCoverage"
                         /\ vres[1].ok =
                                \A i \in 1..Len(entries) :
                                    CheckLogEntry(entries[i], trust_store, now).ok

\* several entries, every one valid, all of the same log
C16_Witness ==
    /\ pc = "returned"
    /\ Len(attestation_bundle[1].log_entries) >= 2
    /\ \A i \in 1..Len(attestation_bundle[1].log_entries) :
           attestation_bundle[1].log_entries[i] = MkLogEntry("L1", 3)
    /\ ~vres[1].ok
    /\ vres[1].kind = "InsufficientLogCoverage"

\* every subject of every attestation in the file of b is the image of b
AllSubjectsMatch(b) ==
    LET atts == b.att_file.parsed[1].attestations
    IN  \A i \in 1..Len(atts) :
            \A j \in 1..Len(atts[i].subject) :
                "sha256:" \o atts[i].subject[j].digest.sha256 = b.image_digest

\* C17: the subject check passes exactly when "sha256:" followed by the
\* digest of every subject of every attestation is the image_digest of the
\* bundle; one subject that differs makes verify_bundle fail with
\* SubjectMismatch, and no cache entry is written
C17_SubjectCheckCoversEverySubject ==
    (vres # None /\ ~hit /\ attestation_bundle # None)
        => /\ (\E c \in 1..Len(checks) : checks[c] = "subject")
                  = AllSubjectsMatch(bundle)
           /\ ~AllSubjectsMatch(bundle)
                  => /\ ~vres[1].ok
                     /\ vres[1].kind = "SubjectMismatch"
                     /\ CacheFiles(cacheDir) \subseteq CacheFiles(cache0)

\* the only subject that differs is the last one of the second attestation
C17_Witness ==
    /\ ReturnedErr
    /\ vres[1].kind = "SubjectMismatch"
    /\ attestation_bundle # None
    /\ Len(attestation_bundle[1].attestations) = 2
    /\ attestation_bundle[1].attestations[1].subject = << MkSubject("aa"), MkSubject("aa") >>
    /\ attestation_bundle[1].attestations[2].subject = << MkSubject("aa"), MkSubject("bb") >>
    /\ CacheFiles(cacheDir) \subseteq CacheFiles(cache0)

(***************************************************************************)
(* main.rs: parse_verify_mode                                              *)
(***************************************************************************)
\* str::strip_prefix: the rest of s after prefix, or None
StripPrefix(s, prefix) ==
    IF Len(s) >= Len(prefix) /\ SubSeq(s, 1, Len(prefix)) = prefix
    THEN Some(SubSeq(s, Len(prefix) + 1, Len(s)))
    ELSE None

\* the match on mode_str
ModeOfStr(mode_str) ==
    IF mode_str = "strict" THEN [res |-> Ok, val |-> Some("Strict")]
    ELSE IF mode_str = "permissive" THEN [res |-> Ok, val |-> Some("Permissive")]
    ELSE IF mode_str = "audit" THEN [res |-> Ok, val |-> Some("Audit")]
    ELSE [res |-> Err("", "Invalid verification mode: " \o mode_str), val |-> None]

\* a loop that passes over a --verify-mode= argument it does not know
RECURSIVE ParseModeFrom_skipping_unknown(_, _)
ParseModeFrom_skipping_unknown(argv, i) ==
    IF i > Len(argv) THEN [res |-> Ok, val |-> Some("Strict")]
    ELSE LET stripped == StripPrefix(argv[i], "--verify-mode=")
         IN  IF stripped # None /\ ModeOfStr(stripped[1]).res.ok
             THEN ModeOfStr(stripped[1])
             ELSE ParseModeFrom_skipping_unknown(argv, i + 1)

\* for arg in args, from argument i on
RECURSIVE ParseModeFrom(_, _)
ParseModeFrom(argv, i) ==
    IF i > Len(argv) THEN [res |-> Ok, val |-> Some("Strict")]
    ELSE LET stripped == StripPrefix(argv[i], "--verify-mode=")
         IN  IF stripped # None THEN ModeOfStr(stripped[1])
             ELSE ParseModeFrom(argv, i + 1)

parse_verify_mode(argv) == ParseModeFrom(argv, 1)

\* what may follow the program name on the command line
ArgChoices ==
    {"/b.ctp", "--verbose", "--verify-mode", "--verify-mode=",
     "--verify-mode=strict", "--verify-mode=permissive", "--verify-mode=audit",
     "--verify-mode=Audit", "--verify-mode=none", "--Verify-mode=audit"}

\* run has found args.len() >= 2 and calls parse_verify_mode(&args)
InitArgs ==
    /\ tsFile = FileOf(GoodStore)
    /\ cacheDir = {}
    /\ auditLog = << >>
    /\ now = 0
    /\ pc = "call"
    /\ bundle = GoodBundle
    /\ mode = "Strict"
    /\ trust_store = EmptyStore
    /\ attestation_bundle = None
    /\ vres = None
    /\ rres = Ok
    /\ exit_code = None
    /\ hit = FALSE
    /\ checks = << >>
    /\ reached = {}
    /\ cache0 = {}
    /\ audit0 = << >>
    /\ allowed = None
    /\ args \in {<< "shim" >> \o rest : rest \in SeqsUpTo(ArgChoices, MaxArgs) \ {<< >>}}
    /\ wpc = [w \in 1..NumShims |-> "none"]
    /\ wentry = [w \in 1..NumShims |-> ""]
    /\ written = << >>

\* let verify_mode = parse_verify_mode(&args)?
ApplyParseVerifyMode ==
    /\ pc = "call"
    /\ LET r == parse_verify_mode(args)
       IN  /\ rres' = r.res
           /\ mode' = IF r.res.ok THEN r.val[1] ELSE mode
           /\ pc' = IF r.res.ok THEN "parsed" ELSE "main_exit"
    /\ UNCHANGED << world, bundle, trust_store, attestation_bundle, vres,
                    exit_code, history >>

NextArgs == ApplyParseVerifyMode

SpecArgs == InitArgs /\ [][NextArgs]_vars

\* argument i begins with --verify-mode=
IsModeFlag(i) == Len(args[i]) >= 14 /\ SubSeq(args[i], 1, 14) = "--verify-mode="

\* C18: parse_verify_mode returns Strict when no argument begins with
\* --verify-mode=; otherwise the first such argument decides: the mode it
\* names when its value is strict, permissive or audit, and an error for
\* any other value, whatever the arguments after it are
C18_FirstModeArgumentDecides ==
    (pc \in {"parsed", "main_exit"})
        => LET flags == {i \in 1..Len(args) : IsModeFlag(i)}
           IN  IF flags = {} THEN rres.ok /\ mode = "Strict"
               ELSE LET first == CHOOSE i \in flags : \A k \in flags : i <= k
                        value == SubSeq(args[first], 15, Len(args[first]))
                    IN  /\ value = "strict" => rres.ok /\ mode = "Strict"
                        /\ value = "permissive" => rres.ok /\ mode = "Permissive"
                        /\ value = "audit" => rres.ok /\ mode = "Audit"
                        /\ value \notin {"strict", "permissive", "audit"}
                               => /\ ~rres.ok
                                  /\ rres.msg = "Invalid verification mode: " \o value

\* an unknown value followed by a known one: an error, not the later mode
C18_Witness ==
    /\ pc = "main_exit"
    /\ ~rres.ok
    /\ Len(args) = 4
    /\ args[3] = "--verify-mode=Audit"
    /\ args[4] = "--verify-mode=permissive"

\* the position of verify_bundle before each check, in the order of the source
CheckPositions == << "vb_parse", "vb_subject", "vb_signatures", "vb_log",
                    "vb_threshold" >>

\* C19: the checks run in the order parse, subject match, signatures, log
\* inclusion, threshold: before check n exactly the n - 1 checks before it
\* have passed, and when a check fails verify_bundle returns its error, the
\* error of the first check in that order that the bundle violates, with no
\* later check evaluated
C19_FirstFailingCheckDecides ==
    /\ \A n \in 1..5 : pc = CheckPositions[n] => checks = SubSeq(AllChecks, 1, n - 1)
    /\ (ReturnedErr /\ vres[1].kind \in CheckKinds)
           => /\ vres[1] = FirstFailure(bundle, trust_store, now)
              /\ checks = PassedBeforeFailure(bundle, trust_store, now)
              /\ Len(checks) < 5

\* the subject is of another image and the signatures do not verify under
\* the store either: the error is the subject's
C19_Witness ==
    /\ ReturnedErr
    /\ vres[1].kind = "SubjectMismatch"
    /\ checks = << "parse" >>
    /\ ~verify_signatures(attestation_bundle[1], trust_store, now).ok
    /\ ~verify_log_inclusion(attestation_bundle[1], trust_store, now).ok
    /\ ~verify_threshold(attestation_bundle[1], trust_store).ok

(***************************************************************************)
(* verify_signatures on its own                                            *)
(***************************************************************************)
\* signatures over Payload0 by K1 and by K2, by a key the store does not
\* have, and one that names K1 but was made with the key of K2
SignatureChoices ==
    {MkSig("K1", 1, Payload0), MkSig("K2", 2, Payload0), MkSig("K9", 9, Payload0),
     MkSig("K1", 2, Payload0)}

SignatureAttestations ==
    {MkAttestationBundle(BundleMediaType, atts, BothLogs) :
        atts \in SeqsUpTo({MkAttestation(<< "aa" >>, e) :
                              e \in {None} \cup
                                    {Some(MkEnvelope(Payload0, sigs)) :
                                        sigs \in SeqsUpTo(SignatureChoices, MaxSigs)}},
                          MaxAtts)}

\* under the store of the release, whose keys have no validity window
InitSignatures ==
    \E a \in SignatureAttestations : CallOn(a, GoodStore, 0)

ApplySignatures ==
    Returns(verify_signatures(attestation_bundle[1], trust_store, now))

NextSignatures == ApplySignatures

SpecSignatures == InitSignatures /\ [][NextSignatures]_vars

\* the store has a key of this keyid
Trusts(store, keyid) == \E k \in 1..Len(store.keys) : store.keys[k].keyid = keyid

\* the signature verifies over the payload under a key of its keyid that
\* the store holds and that is valid at the time
VerifiesUnder(store, payload, signature, clock) ==
    \E k \in 1..Len(store.keys) :
        /\ store.keys[k].keyid = signature.keyid
        /\ store.keys[k].valid_until # None => clock <= store.keys[k].valid_until[1]
        /\ store.keys[k].valid_from # None => clock >= store.keys[k].valid_from[1]
        /\ Ed25519Verify(store.keys[k].key_bytes, payload, signature.sig)

\* C20: verify_signatures passes only if every attestation has a DSSE
\* envelope and every signature of every envelope names a keyid of the trust
\* store and verifies under that key over the payload of the envelope; a
\* single signature of an unknown key or one that does not verify fails the
\* check whatever the other signatures are: none is accepted early
C20_EverySignatureMustVerify ==
    (pc = "returned")
        => LET atts == attestation_bundle[1].attestations
           IN  /\ vres[1].ok =
                      \A i \in 1..Len(atts) :
                          /\ atts[i].envelope # None
                          /\ \A j \in 1..Len(atts[i].envelope[1].signatures) :
                                 VerifiesUnder(trust_store, atts[i].envelope[1].payload,
                                               atts[i].envelope[1].signatures[j], now)
               /\ ~vres[1].ok
                      => vres[1].kind \in {"MissingEnvelope", "UnknownKey", "ExpiredKey",
                                           "KeyNotYetValid", "InvalidSignature"}
               /\ (\A i \in 1..Len(atts) :
                       /\ atts[i].envelope # None
                       /\ \A j \in 1..Len(atts[i].envelope[1].signatures) :
                              \/ VerifiesUnder(trust_store, atts[i].envelope[1].payload,
                                               atts[i].envelope[1].signatures[j], now)
                              \/ ~Trusts(trust_store,
                                         atts[i].envelope[1].signatures[j].keyid))
                      => (vres[1].ok \/ vres[1].kind = "UnknownKey")

\* a good signature of K1 followed by one of an unknown key in the same
\* envelope
C20_Witness ==
    /\ pc = "returned"
    /\ ~vres[1].ok
    /\ vres[1].kind = "UnknownKey"
    /\ Len(attestation_bundle[1].attestations) >= 1
    /\ attestation_bundle[1].attestations[1].envelope
           = Some(MkEnvelope(Payload0,
                             << MkSig("K1", 1, Payload0), MkSig("K9", 9, Payload0) >>))

(***************************************************************************)
(* verify_signatures on one signature, over the fields of the key          *)
(***************************************************************************)
\* the store of the release with other fields for K1 in the file
StoreWithK1(algorithm, valid_from, valid_until) ==
    [GoodStore EXCEPT !.keys[1] =
        TrustedKey("K1", KeyBytes(1), algorithm, valid_from, valid_until)]

\* a bound of a validity window: absent, or a time
WindowBounds == {None} \cup {Some(t) : t \in 0..MaxClock}

\* one attestation whose envelope K1 signed, or that carries a signature
\* under the keyid K1 made with another key
KeyAttestations ==
    {MkAttestationBundle(BundleMediaType,
         << MkAttestation(<< "aa" >>,
                          Some(MkEnvelope(Payload0, << MkSig("K1", id, Payload0) >>))) >>,
         BothLogs) : id \in {1, 2}}

InitKeys ==
    \E a \in KeyAttestations, algorithm \in {"ed25519", "rsa", "ECDSA", ""},
       valid_from \in WindowBounds, valid_until \in WindowBounds, t \in 0..MaxClock :
        CallOn(a, StoreWithK1(algorithm, valid_from, valid_until), t)

ApplySignaturesOfKey ==
    Returns(verify_signatures(attestation_bundle[1], trust_store, now))

NextKeys == ApplySignaturesOfKey

SpecKeys == InitKeys /\ [][NextKeys]_vars

\* C21: a signature under a trusted key whose algorithm tag is not ed25519
\* is rejected with UnsupportedAlgorithm: the signature check does not pass
\* with such a key
C21_OnlyEd25519KeysAreUsed ==
    (pc = "returned" /\ trust_store.keys[1].algorithm # "ed25519")
        => ~vres[1].ok /\ vres[1].kind = "UnsupportedAlgorithm"

\* now is before valid_from / after valid_until of the key K1 of the store
BeforeWindow == trust_store.keys[1].valid_from # None
                    /\ now < trust_store.keys[1].valid_from[1]
AfterWindow == trust_store.keys[1].valid_until # None
                   /\ now > trust_store.keys[1].valid_until[1]

\* C22 as stated: now < valid_from fails with KeyNotYetValid, now >
\* valid_until fails with ExpiredKey, and a key at a bound of its window or
\* without the bound is not refused by the window check
C22_WindowEnforcedAsStated ==
    (pc = "returned")
        => /\ BeforeWindow => ~vres[1].ok /\ vres[1].kind = "KeyNotYetValid"
           /\ AfterWindow => ~vres[1].ok /\ vres[1].kind = "ExpiredKey"
           /\ (~BeforeWindow /\ ~AfterWindow)
                  => vres[1].kind \notin {"KeyNotYetValid", "ExpiredKey"}

\* C22, amended: valid_until is looked at first. now > valid_until fails
\* with ExpiredKey; now < valid_from fails, with KeyNotYetValid unless now is
\* also after valid_until; at a bound of the window or without the bound the
\* window check refuses nothing and the result is that of the signature
C22_WindowEnforcedUntilFirst ==
    (pc = "returned")
        => /\ AfterWindow => ~vres[1].ok /\ vres[1].kind = "ExpiredKey"
           /\ (BeforeWindow /\ ~AfterWindow)
                  => ~vres[1].ok /\ vres[1].kind = "KeyNotYetValid"
           /\ (~BeforeWindow /\ ~AfterWindow)
                  => /\ vres[1].kind \notin {"KeyNotYetValid", "ExpiredKey"}
                     /\ vres[1].ok =
                            Ed25519Verify(trust_store.keys[1].key_bytes, Payload0,
                                attestation_bundle[1].attestations[1].envelope[1]
                                    .signatures[1].sig)

\* the key is used at the one instant that is both its first and its last
C22_Witness ==
    /\ pc = "returned"
    /\ trust_store.keys[1].valid_from = Some(now)
    /\ trust_store.keys[1].valid_until = Some(now)
    /\ vres[1].ok

(***************************************************************************)
(* verify_merkle_proof on its own                                          *)
(***************************************************************************)
\* two leaf hashes
LeafHashes == {<< "leaf", "a" >>, << "leaf", "b" >>}

\* the hashes of the nodes that are d levels above a leaf on some audit path
RECURSIVE HashesAbove(_)
HashesAbove(d) ==
    IF d = 0 THEN LeafHashes
    ELSE {NodeHash(below, sibling) : below \in HashesAbove(d - 1), sibling \in LeafHashes}
         \cup {NodeHash(sibling, below) : below \in HashesAbove(d - 1),
                                          sibling \in LeafHashes}

\* a string that is not hexadecimal
NotHex == [ok |-> FALSE, v |-> << >>]

MerkleProofs ==
    {[log_index |-> index, tree_size |-> size, root_hash |-> root, hashes |-> path] :
        index \in 0..MaxTree, size \in 0..MaxTree,
        root \in {NotHex} \cup {Hex(h) : h \in UNION {HashesAbove(d) : d \in 0..(MaxPath - 1)}},
        path \in SeqsUpTo({NotHex} \cup {Hex(h) : h \in LeafHashes}, MaxPath)}

InitMerkle ==
    \E proof \in MerkleProofs :
        CallOn(MkAttestationBundle(BundleMediaType, << >>,
                   << [MkLogEntry("L1", 3) EXCEPT !.inclusion_proof = Some(proof)] >>),
               GoodStore, 0)

\* verify_merkle_proof(proof) for the proof of the log entry
ApplyMerkleProof ==
    Returns(verify_merkle_proof(attestation_bundle[1].log_entries[1].inclusion_proof[1]))

NextMerkle == ApplyMerkleProof

SpecMerkle == InitMerkle /\ [][NextMerkle]_vars

\* the proof that was verified
TheProof == attestation_bundle[1].log_entries[1].inclusion_proof[1]

\* every string of the proof is hexadecimal
ProofDecodes ==
    /\ TheProof.root_hash.ok
    /\ \A i \in 1..Len(TheProof.hashes) : TheProof.hashes[i].ok

\* the hash reached after the first n elements of the path: the leaf, then
\* for the sibling at position n the node whose left child is the running
\* hash when bit n - 2 of the index is 0 and whose right child it is otherwise
RECURSIVE HashAfter(_, _, _)
HashAfter(path, n, index) ==
    IF n = 1 THEN path[1].v
    ELSE IF (index \div 2^(n - 2)) % 2 = 0
    THEN << "node", HashAfter(path, n - 1, index), path[n].v >>
    ELSE << "node", path[n].v, HashAfter(path, n - 1, index) >>

\* C23: verify_merkle_proof accepts exactly the proofs with log_index <
\* tree_size and a non-empty audit path whose fold from the leaf hash over
\* the siblings (running hash on the left when the running index is even,
\* on the right when it is odd, the index halved after each step) is the
\* root hash; the proof of the single leaf of a tree of size 1 is accepted
C23_MerkleProofAcceptedIffFoldIsRoot ==
    (pc = "returned")
        => /\ ~ProofDecodes => ~vres[1].ok
           /\ ProofDecodes
                  => vres[1].ok =
                         /\ TheProof.log_index < TheProof.tree_size
                         /\ Len(TheProof.hashes) >= 1
                         /\ HashAfter(TheProof.hashes, Len(TheProof.hashes),
                                      TheProof.log_index) = TheProof.root_hash.v
           /\ (/\ TheProof.log_index = 0
               /\ TheProof.tree_size = 1
               /\ TheProof.root_hash.ok
               /\ TheProof.hashes = << TheProof.root_hash >>) => vres[1].ok

\* leaf 2 with two siblings: a left child first, then a right child
C23_Witness ==
    /\ pc = "returned"
    /\ vres[1].ok
    /\ TheProof.log_index = 2
    /\ Len(TheProof.hashes) = 3

\* C24: verify_merkle_proof accepts a proof only when the length of the
\* audit path fits tree_size: a path of the leaf hash alone is accepted only
\* for tree_size 1, and a proof for a larger tree without sibling is
\* rejected also when its first hash is the root hash
C24_PathLengthFitsTreeSize ==
    (pc = "returned" /\ vres[1].ok /\ Len(TheProof.hashes) = 1)
        => TheProof.tree_size = 1

(***************************************************************************)
(* verify_set_signature on its own                                         *)
(***************************************************************************)
\* version, signature type and the 8 bytes of a timestamp below 2^32 ms
SetHeadAt(timestamp_ms) ==
    << 0, 0, 0, 0, 0, 0,
       (timestamp_ms \div 16777216) % 256, (timestamp_ms \div 65536) % 256,
       (timestamp_ms \div 256) % 256, timestamp_ms % 256 >>

\* the heads of the SETs, for a clock that reads `clock`: a timestamp of 0,
\* at the end of the grace period (to the millisecond, and 999 ms later) and
\* one second after it; with entry data, and cut one byte short of the data
SetHeads(clock) ==
    LET full == {SetHeadAt(ms) \o data :
                    ms \in {0, (clock + 604800) * 1000, (clock + 604800) * 1000 + 999,
                            (clock + 604801) * 1000},
                    data \in SeqsUpTo({7}, MaxEntryData)}
    IN  full \cup {SubSeq(h, 1, 9) : h \in full}

\* the SETs over a head: signed by L1 or by another key, or signed by L1
\* over other bytes; or a string that is not base64
SetsOver(head) ==
    {[b64ok |-> b64ok, head |-> head, sig |-> sig] :
        b64ok \in BOOLEAN,
        sig \in {SigBy(3, head), SigBy(9, head), SigBy(3, SetHead0 \o << 9 >>)}}

\* the store of the release, and the same with a log key of 31 bytes
SetStores ==
    {GoodStore, [GoodStore EXCEPT !.keys[3].key_bytes.len = 31]}

InitSet ==
    \E t \in {0, 1}, store \in SetStores :
        \E head \in SetHeads(t) :
            \E set \in SetsOver(head) :
                CallOn(MkAttestationBundle(BundleMediaType, << >>,
                           << [MkLogEntry("L1", 3) EXCEPT !.signed_entry_timestamp = set] >>),
                       store, t)

\* verify_set_signature(&log_entry.signed_entry_timestamp, log_key, attestation)
ApplySetSignature ==
    Returns(verify_set_signature(attestation_bundle[1].log_entries[1].signed_entry_timestamp,
                                 get_key(trust_store, "L1")[1], now))

NextSet == ApplySetSignature

SpecSet == InitSet /\ [][NextSet]_vars

\* the SET that was verified and the key of its log
TheSet == attestation_bundle[1].log_entries[1].signed_entry_timestamp
TheLogKey == trust_store.keys[3].key_bytes

\* the seconds of the timestamp in bytes 2..10 of the SET (the four high
\* bytes are 0)
SetSeconds ==
    (TheSet.head[7] * 16777216 + TheSet.head[8] * 65536 + TheSet.head[9] * 256
         + TheSet.head[10]) \div 1000

\* C25: verify_set_signature accepts a Signed Entry Timestamp exactly when
\* it decodes to at least 74 bytes, its last 64 bytes are a signature of the
\* log key over the bytes before them, and its timestamp in whole seconds is
\* at most now + 604800: now + 604800 is accepted, one second more is not
C25_SetAcceptedIffSignedAndNotFuture ==
    (pc = "returned")
        => vres[1].ok =
               /\ TheSet.b64ok
               /\ Len(TheSet.head) + 64 >= 74
               /\ TheLogKey.len = 32
               /\ TheSet.sig.len = 64
               /\ TheSet.sig.signer = TheLogKey.id
               /\ TheSet.sig.msg = TheSet.head
               /\ SetSeconds <= now + 604800

\* the last instant of the grace period
C25_Witness ==
    /\ pc = "returned"
    /\ vres[1].ok
    /\ SetSeconds = now + 604800

\* an entry for (b, store) older than the TTL is in the directory
StaleEntryIn(dir, b, store, clock) ==
    \E e \in dir :
        /\ e.file = b.image_digest \o "-" \o trust_store_version(store) \o ".cache"
        /\ clock - e.mtime > CacheTtlSecs

\* C26: a cache entry is a hit only while its age, from the modification
\* time of the file, is at most 3600 seconds; when the entry found is older,
\* the lookup reports a miss, the file of the entry is deleted, and the
\* checks run in full
C26_ExpiredEntryIsDeletedAndChecksRun ==
    /\ hit => FreshEntryIn(cache0, bundle, trust_store, now)
    /\ (pc = "vb_parse" /\ StaleEntryIn(cache0, bundle, trust_store, now))
           => /\ ~hit
              /\ \A e \in cacheDir :
                     e.file # bundle.image_digest \o "-"
                                  \o trust_store_version(trust_store) \o ".cache"
    /\ (vres # None /\ vres[1].kind # "Io"
            /\ StaleEntryIn(cache0, bundle, trust_store, now))
           => /\ checks = PassedBeforeFailure(bundle, trust_store, now)
              /\ vres[1].ok = FiveChecksHold(bundle, trust_store, now)

====
